---- MODULE Spec2Model ----
(***************************************************************************)
(* AllocRingBuffer (src/src/with_alloc/alloc_ringbuffer.rs): a fixed-      *)
(* capacity circular buffer over a raw allocation, with two never-wrapped  *)
(* cursors (readptr, writeptr) translated to physical slots by the         *)
(* strategy SIZE::mask.                                                    *)
(*                                                                         *)
(* The raw allocation is modelled as a heap of regions; a buffer holds the *)
(* id of its region in buf.  A slot is either a value or Uninit.  ptr::read*)
(* moves the value out, so the slot read is Uninit afterwards.  Reading an *)
(* Uninit slot is undefined behaviour: it raises the flag ub and yields    *)
(* the token Uninit, which stands for whatever bits the build produces.    *)
(* NoUB states that no reachable call does so.                             *)
(*                                                                         *)
(* The buffer is generic in its element type and never inspects a value,   *)
(* so the elements are modelled as tickets: every value handed to push,    *)
(* extend or produced by fill_with's generator is the next number of a     *)
(* counter, which makes every permutation, loss or duplication visible.    *)
(*                                                                         *)
(* len, is_empty, is_full, get, peek, back, clear, iter, drain and the two *)
(* mask functions are generated by macros (impl_ringbuffer!,               *)
(* impl_ringbuffer_ext!, impl_ringbuffer_read!) and free functions         *)
(* (crate::mask, crate::mask_modulo) that live outside this file; they are *)
(* modelled from spec.md (sections 4.1 and 4.3 to 4.6).                    *)
(***************************************************************************)
EXTENDS Integers, Sequences, FiniteSets, TLC

\* ---------------------------------------------------------------- bounds
MaxCap == 4        \* largest capacity constructed (Spec)
MaxPtr == 10       \* pushes stop when writeptr reaches this (Spec)
MaxExt == 5        \* longest sequence handed to extend (Spec)
MaxVal == 9        \* element values are 0..MaxVal
MaxIdx == 5        \* get/index are tried on -MaxIdx..MaxIdx
MaxCapClone == 3   \* largest capacity constructed (SpecClone)
MaxPtrClone == 3   \* pushes stop when writeptr reaches this (SpecClone)
MaxExtClone == 2   \* longest sequence handed to extend (SpecClone)
MaxValsClone == 4  \* values handed over in all (SpecClone)
MaxCapEq == 2      \* largest capacity constructed (SpecEq)
MaxPtrEq == 3      \* pushes stop when writeptr reaches this (SpecEq)
MaxValEq == 1      \* element values are 0..MaxValEq (SpecEq)
MaxCapNew == 4     \* largest capacity asked of a constructor (SpecNew)
MaxSrc == 4        \* longest sequence converted (SpecNew)
MaxPtrNew == 3     \* pushes stop when writeptr reaches this (SpecNew)
MaxExp == 2        \* largest exponent handed to with_capacity_power_of_2 (SpecNew)
MaxCapPair == 4    \* largest capacity constructed (SpecPair)
MaxPtrPair == 9    \* pushes stop when writeptr reaches this (SpecPair)
MaxExtPair == 3    \* longest sequence handed to extend (SpecPair)
MaxIndex == 40     \* the strategies are compared on indices 0..MaxIndex
Width == 4         \* the cursors of SpecWrap are Width-bit unsigned integers
MaxCapWrap == 3    \* largest capacity constructed (SpecWrap)

RINGBUFFER_DEFAULT_CAPACITY == 1024

Idx == (0 - MaxIdx)..MaxIdx
BufIds == {1, 2}           \* 1: the buffer constructed first, 2: its clone
Regions == {1, 2}          \* one region per buffer that can exist

Uninit == 0 - 1            \* an uninitialized (or moved-out) slot
Panic == 0 - 2             \* in place of a value: the call terminated
Abort == 0 - 3             \* in place of a generated value: the generator panicked
Free == <<>>               \* a region that is not allocated
None == <<>>               \* Option::None
Some(v) == <<v>>           \* Option::Some(v)
Unit == <<>>               \* the result of an operation returning nothing
\* a buffer that does not exist (no constructor yields capacity 0)
NoBuf == [buf |-> 0, capacity |-> 0, readptr |-> 0, writeptr |-> 0, mode |-> "none"]

VARIABLES heap, rb, next, q, pushed, last, ub

vars == <<heap, rb, next, q, pushed, last, ub>>

\* ------------------------------------------------------- pure helpers
RECURSIVE BitAnd(_, _)
BitAnd(x, y) ==
    IF x = 0 \/ y = 0 THEN 0
    ELSE (x % 2) * (y % 2) + 2 * BitAnd(x \div 2, y \div 2)

is_power_of_two(n) == n > 0 /\ BitAnd(n, n - 1) = 0

Pow2(n) == 2 ^ n

Min(a, b) == IF a < b THEN a ELSE b

\* the last n elements of s
LastN(n, s) == SubSeq(s, Len(s) - n + 1, Len(s))

\* ---------------------------------------------------- storage strategy
\* crate::mask: the bitmask strategy
mask(cap, index) == BitAnd(index, cap - 1)

\* crate::mask_modulo: the general strategy
mask_modulo(cap, index) == index % cap

\* mutant: NonPowerOfTwo::mask calls the bitmask too
SizeMask_bitmask_only(mode, cap, index) == mask(cap, index)

\* mutant: PowerOfTwo::mask hands its arguments over in the wrong order
SizeMask_swapped_arguments(mode, cap, index) ==
    IF mode = "PowerOfTwo" THEN mask(index, cap) ELSE mask_modulo(cap, index)

\* SIZE::mask, SIZE being the buffer's mode
SizeMask(mode, cap, index) ==
    IF mode = "PowerOfTwo" THEN mask(cap, index) ELSE mask_modulo(cap, index)

must_be_power_of_two(mode) == mode = "PowerOfTwo"

\* ------------------------------------------------------- raw memory
\* a pointer into a buffer's region: buf.add(index)
get_unchecked_mut(self, index) == <<self.buf, index + 1>>

ptr_read(h, p) == h[p[1]][p[2]]

ptr_write(h, p, v) == [h EXCEPT ![p[1]][p[2]] = v]

\* alloc::alloc::alloc(Layout::array::<T>(cap)): the lowest free region
alloc(h, cap) ==
    LET r == CHOOSE x \in Regions : h[x] = Free /\ \A y \in Regions : h[y] = Free => x <= y
    IN [heap |-> [h EXCEPT ![r] = [i \in 1..cap |-> Uninit]], buf |-> r]

\* ------------------------------------------------------- construction
\* a constructor call that terminated: no buffer, nothing allocated
Panicked(h) == [heap |-> h, self |-> NoBuf]

\* mutant: the write cursor starts at the capacity, as after fill_with
with_capacity_unchecked_full(h, mode, cap) ==
    LET a == alloc(h, cap)
    IN [heap |-> a.heap,
        self |-> [buf |-> a.buf, capacity |-> cap, readptr |-> 0, writeptr |-> cap,
                  mode |-> mode]]

with_capacity_unchecked(h, mode, cap) ==
    LET a == alloc(h, cap)
    IN [heap |-> a.heap,
        self |-> [buf |-> a.buf, capacity |-> cap, readptr |-> 0, writeptr |-> 0,
                  mode |-> mode]]

with_capacity_non_power_of_two(h, cap) ==
    IF cap = 0 THEN Panicked(h) ELSE with_capacity_unchecked(h, "NonPowerOfTwo", cap)

with_capacity_power_of_2(h, cap_power_of_two) ==
    with_capacity_unchecked(h, "PowerOfTwo", Pow2(cap_power_of_two))

\* mutant: the power-of-two assertion is missing
with_capacity_nonzero_only(h, cap) ==
    IF cap = 0 THEN Panicked(h) ELSE with_capacity_unchecked(h, "PowerOfTwo", cap)

with_capacity(h, cap) ==
    IF cap = 0 THEN Panicked(h)
    ELSE IF ~is_power_of_two(cap) THEN Panicked(h)
    ELSE with_capacity_unchecked(h, "PowerOfTwo", cap)

\* Default::default, implemented for both strategies
default(h, mode) == with_capacity_unchecked(h, mode, RINGBUFFER_DEFAULT_CAPACITY)

\* AllocRingBuffer::new, of the power-of-two strategy only
AllocRingBuffer_new(h) == default(h, "PowerOfTwo")

\* ------------------------------------------------ the trait layer
ptr_len(self) == self.writeptr - self.readptr

len(self) == ptr_len(self)

capacity(self) == self.capacity

is_empty(self) == len(self) = 0

is_full(self) == len(self) = capacity(self)

\* the physical slot of logical position pos
SlotOf(self, pos) == SizeMask(self.mode, self.capacity, pos)

\* iter()/to_vec(): the live elements, oldest to newest
ToVec(h, self) ==
    [k \in 1..len(self) |->
        ptr_read(h, get_unchecked_mut(self, SlotOf(self, self.readptr + k - 1)))]

\* get(i): logical position readptr + i (i >= 0) or writeptr + i (i < 0)
get(h, self, i) ==
    LET pos == IF i >= 0 THEN self.readptr + i ELSE self.writeptr + i
    IN IF pos < self.readptr \/ pos >= self.writeptr THEN None
       ELSE Some(ptr_read(h, get_unchecked_mut(self, SlotOf(self, pos))))

peek(h, self) ==
    IF is_empty(self) THEN None
    ELSE Some(ptr_read(h, get_unchecked_mut(self, SlotOf(self, self.readptr))))

back(h, self) ==
    IF is_empty(self) THEN None
    ELSE Some(ptr_read(h, get_unchecked_mut(self, SlotOf(self, self.writeptr - 1))))

\* mutant: the index is wrapped into the live range instead of refused
index_wrapping(h, self, i) ==
    IF is_empty(self) THEN Panic ELSE get(h, self, i % len(self))[1]

\* Index::index: get(index).expect("index out of bounds")
index(h, self, i) ==
    IF get(h, self, i) = None THEN Panic ELSE get(h, self, i)[1]

\* mutant: the capacities are not compared
eq_without_capacity(h, self, other) ==
    /\ len(self) = len(other)
    /\ \A k \in 1..Min(len(self), len(other)) : ToVec(h, self)[k] = ToVec(h, other)[k]

\* PartialEq::eq
eq(h, self, other) ==
    /\ self.capacity = other.capacity
    /\ len(self) = len(other)
    /\ \A k \in 1..Min(len(self), len(other)) : ToVec(h, self)[k] = ToVec(h, other)[k]

\* ------------------------------------------------------- operations
\* An operation runs on a machine m: the heap, the buffer it is called on,
\* its result (ret), whether it read an Uninit slot (ub), and the events it
\* caused in order (ev): "drop" of a value (its destructor ran), "gen" of
\* a value (the generator was called and yielded it), "write" of a value
\* into a slot (with what the slot held at that moment, and the cursors)
\* and "dealloc" of the region.
Machine(h, self) ==
    [heap |-> h, self |-> self, ev |-> <<>>, ret |-> Unit, ub |-> FALSE]

Event(e, v) == [e |-> e, v |-> v]

\* the values of the events of kind e, in order
RECURSIVE EventVals(_, _)
EventVals(ev, e) ==
    IF ev = <<>> THEN <<>>
    ELSE (IF Head(ev).e = e THEN <<Head(ev).v>> ELSE <<>>) \o EventVals(Tail(ev), e)

Drops(ev) == EventVals(ev, "drop")

GenCalls(ev) == Len(EventVals(ev, "gen"))

\* ptr::read of slot index, then drop of the value read
ReadAndDrop(m, idx) ==
    LET p == get_unchecked_mut(m.self, idx)
        v == ptr_read(m.heap, p)
    IN [m EXCEPT !.heap = ptr_write(@, p, Uninit),
                 !.ev = Append(@, Event("drop", v)),
                 !.ub = @ \/ v = Uninit]

\* ptr::write(get_unchecked_mut(self, idx), value)
PtrWrite(m, idx, value) ==
    LET p == get_unchecked_mut(m.self, idx)
    IN [m EXCEPT !.heap = ptr_write(@, p, value),
                 !.ev = Append(@, [e |-> "write", v |-> value, slot |-> idx,
                                   over |-> ptr_read(m.heap, p),
                                   readptr |-> m.self.readptr,
                                   writeptr |-> m.self.writeptr])]

\* mutant: the write goes to the slot after the one writeptr maps to
push_writes_next_slot(m, value) ==
    LET m1 == IF is_full(m.self)
              THEN LET d == ReadAndDrop(m, SlotOf(m.self, m.self.readptr))
                   IN [d EXCEPT !.self.readptr = @ + 1]
              ELSE m
        idx == SlotOf(m1.self, m1.self.writeptr + 1)
    IN [PtrWrite(m1, idx, value) EXCEPT !.self.writeptr = @ + 1]

\* mutant: the eviction branch forgets readptr += 1
push_keeps_readptr(m, value) ==
    LET m1 == IF is_full(m.self)
              THEN ReadAndDrop(m, SlotOf(m.self, m.self.readptr))
              ELSE m
        idx == SlotOf(m1.self, m1.self.writeptr)
    IN [PtrWrite(m1, idx, value) EXCEPT !.self.writeptr = @ + 1]

\* push on a full buffer when the destructor of the evicted element panics:
\* the call unwinds out of drop(previous_value), the lines after it do not
\* run
push_drop_panics(m, value) ==
    LET d == ReadAndDrop(m, SlotOf(m.self, m.self.readptr))
    IN [d EXCEPT !.ev = Append(@, Event("abort", value))]

\* mutant: the new value is written first, the eviction follows
push_write_then_destroy(m, value) ==
    LET full == is_full(m.self)
        idx == SlotOf(m.self, m.self.writeptr)
        m1 == PtrWrite(m, idx, value)
        m2 == IF full
              THEN LET d == ReadAndDrop(m1, SlotOf(m1.self, m1.self.readptr))
                   IN [d EXCEPT !.self.readptr = @ + 1]
              ELSE m1
    IN [m2 EXCEPT !.self.writeptr = @ + 1]

push(m, value) ==
    LET m1 == IF is_full(m.self)
              THEN LET d == ReadAndDrop(m, SlotOf(m.self, m.self.readptr))
                   IN [d EXCEPT !.self.readptr = @ + 1]
              ELSE m
        idx == SlotOf(m1.self, m1.self.writeptr)
    IN [PtrWrite(m1, idx, value) EXCEPT !.self.writeptr = @ + 1]

\* mutant: the slot is computed after readptr += 1
dequeue_index_after_advance(m) ==
    IF is_empty(m.self) THEN [m EXCEPT !.ret = None]
    ELSE LET idx == SlotOf(m.self, m.self.readptr + 1)
             res == get_unchecked_mut(m.self, idx)
             v == ptr_read(m.heap, res)
         IN [m EXCEPT !.self.readptr = @ + 1,
                      !.heap = ptr_write(@, res, Uninit),
                      !.ret = Some(v),
                      !.ub = @ \/ v = Uninit]

\* mutant: no is_empty check
dequeue_no_empty_check(m) ==
    LET idx == SlotOf(m.self, m.self.readptr)
        res == get_unchecked_mut(m.self, idx)
        v == ptr_read(m.heap, res)
    IN [m EXCEPT !.self.readptr = @ + 1,
                 !.heap = ptr_write(@, res, Uninit),
                 !.ret = Some(v),
                 !.ub = @ \/ v = Uninit]

dequeue(m) ==
    IF is_empty(m.self) THEN [m EXCEPT !.ret = None]
    ELSE LET idx == SlotOf(m.self, m.self.readptr)
             res == get_unchecked_mut(m.self, idx)
             v == ptr_read(m.heap, res)
         IN [m EXCEPT !.self.readptr = @ + 1,
                      !.heap = ptr_write(@, res, Uninit),
                      !.ret = Some(v),
                      !.ub = @ \/ v = Uninit]

\* ------------------------------------- the cursors as w-bit integers
\* Above, the cursors are integers: exact as long as no cursor reaches the
\* top of usize.  Below, usize has Width bits and +, - wrap around, as they
\* do in a build without overflow checks (with the checks, the += 1 that
\* would wrap panics instead).
UsizeRange == 2 ^ Width

wrapping_add(a, b) == (a + b) % UsizeRange

wrapping_sub(a, b) == (a - b) % UsizeRange

len_wrapping(self) == wrapping_sub(self.writeptr, self.readptr)

is_empty_wrapping(self) == len_wrapping(self) = 0

is_full_wrapping(self) == len_wrapping(self) = capacity(self)

\* iter()/to_vec() on w-bit cursors
ToVec_wrapping(h, self) ==
    [k \in 1..len_wrapping(self) |->
        ptr_read(h, get_unchecked_mut(self,
                        SlotOf(self, wrapping_add(self.readptr, k - 1))))]

\* push on w-bit cursors
push_wrapping(m, value) ==
    LET m1 == IF is_full_wrapping(m.self)
              THEN LET d == ReadAndDrop(m, SlotOf(m.self, m.self.readptr))
                   IN [d EXCEPT !.self.readptr = wrapping_add(@, 1)]
              ELSE m
        idx == SlotOf(m1.self, m1.self.writeptr)
    IN [PtrWrite(m1, idx, value) EXCEPT !.self.writeptr = wrapping_add(@, 1)]

\* dequeue on w-bit cursors
dequeue_wrapping(m) ==
    IF is_empty_wrapping(m.self) THEN [m EXCEPT !.ret = None]
    ELSE LET idx == SlotOf(m.self, m.self.readptr)
             res == get_unchecked_mut(m.self, idx)
             v == ptr_read(m.heap, res)
         IN [m EXCEPT !.self.readptr = wrapping_add(@, 1),
                      !.heap = ptr_write(@, res, Uninit),
                      !.ret = Some(v),
                      !.ub = @ \/ v = Uninit]

\* mutant: the loop stops at the first element that finds the buffer full
RECURSIVE extend_stops_when_full(_, _)
extend_stops_when_full(m, iter) ==
    IF iter = <<>> \/ is_full(m.self) THEN m
    ELSE extend_stops_when_full(push(m, Head(iter)), Tail(iter))

\* for elem in iter { self.push(elem) }: each push has returned before the
\* next element is taken
RECURSIVE extend(_, _)
extend(m, iter) ==
    IF iter = <<>> THEN m
    ELSE LET m1 == push(m, Head(iter))
         IN IF m1.ret = Unit THEN extend(m1, Tail(iter)) ELSE m1

\* drain().for_each(drop): dequeue until empty, destroying each value
RECURSIVE DrainAll(_)
DrainAll(m) ==
    LET d == dequeue(m)
    IN IF d.ret = None THEN m
       ELSE DrainAll([d EXCEPT !.ev = Append(@, Event("drop", d.ret[1])), !.ret = Unit])

clear(m) ==
    LET d == DrainAll(m)
    IN [d EXCEPT !.self.readptr = 0, !.self.writeptr = 0]

\* the value the generator f yields at its k-th call: f lists the values of
\* one period
Yield(f, k) == f[((k - 1) % Len(f)) + 1]

\* for i in from..capacity-1: ptr::write(get_unchecked_mut(self, i), f())
RECURSIVE FillLoop(_, _, _)
FillLoop(m, i, f) ==
    IF i >= m.self.capacity THEN m
    ELSE LET v == Yield(f, GenCalls(m.ev) + 1)
         IN IF v = Abort THEN [m EXCEPT !.ev = Append(@, Event("abort", i))]
            ELSE FillLoop(PtrWrite([m EXCEPT !.ev = Append(@, Event("gen", v))], i, v),
                     i + 1, f)

\* mutant: the live elements are overwritten without being cleared first
fill_with_no_clear(m, f) ==
    FillLoop([m EXCEPT !.self.readptr = 0, !.self.writeptr = m.self.capacity], 0, f)

\* f is the generator
fill_with(m, f) ==
    LET c == clear(m)
        s == [c EXCEPT !.self.readptr = 0, !.self.writeptr = c.self.capacity]
    IN FillLoop(s, 0, f)

\* alloc::alloc::dealloc(buf, Layout::array::<T>(cap)): releasing a region
\* with a layout other than the one it was allocated with is undefined
dealloc(m, cap) ==
    [m EXCEPT !.heap[m.self.buf] = Free,
              !.ev = Append(@, Event("dealloc", cap)),
              !.ub = @ \/ Len(m.heap[m.self.buf]) # cap]

\* mutant: the region is released with the elements still in it
drop_without_drain(m) ==
    [dealloc(m, m.self.capacity) EXCEPT !.self = NoBuf]

\* Drop::drop: drain().for_each(drop), then dealloc; the buffer is gone
drop(m) ==
    LET d == DrainAll(m)
    IN [dealloc(d, d.self.capacity) EXCEPT !.self = NoBuf]

\* mutant: a field-by-field copy, the region pointer included
clone_shallow(h, self) == Machine(h, self)

\* Clone::clone: a fresh buffer of the same capacity, each live element
\* pushed; the two debug assertions terminate the call (no buffer results)
clone(h, self) ==
    IF self.capacity = 0 THEN Machine(h, NoBuf)
    ELSE IF must_be_power_of_two(self.mode) /\ ~is_power_of_two(self.capacity)
    THEN Machine(h, NoBuf)
    ELSE LET new == with_capacity_unchecked(h, self.mode, self.capacity)
         IN extend(Machine(new.heap, new.self), ToVec(h, self))

\* ------------------------------------------------------- conversions
\* a call that terminated before it had a buffer: none results
Terminated(h) == Machine(h, NoBuf)

\* GrowableAllocRingBuffer: v is the sequence of elements it holds, oldest
\* first; len() counts them and drain() yields them in that order
growable_len(v) == Len(v)

growable_drain(v) == v

\* mutant: the buffer is built by with_capacity, as for the default strategy
from_array_with_capacity(h, value) ==
    LET rb0 == with_capacity(h, Len(value))
    IN IF rb0.self = NoBuf THEN Terminated(h)
       ELSE extend(Machine(rb0.heap, rb0.self), value)

\* From<[T; N]>
from_array(h, value) ==
    LET rb0 == with_capacity_non_power_of_two(h, Len(value))
    IN IF rb0.self = NoBuf THEN Terminated(h)
       ELSE extend(Machine(rb0.heap, rb0.self), value)

\* From<&[T]> (From<&[T; N]> and From<&mut [T]> call it): the elements are
\* cloned
from_slice(h, value) ==
    LET rb0 == with_capacity_non_power_of_two(h, Len(value))
    IN IF rb0.self = NoBuf THEN Terminated(h)
       ELSE extend(Machine(rb0.heap, rb0.self), value)

\* From<GrowableAllocRingBuffer<T>>
from_growable(h, v) ==
    LET rb0 == with_capacity_non_power_of_two(h, growable_len(v))
    IN IF rb0.self = NoBuf THEN Terminated(h)
       ELSE extend(Machine(rb0.heap, rb0.self), growable_drain(v))

\* FromIterator::from_iter: a default buffer, each item pushed
from_iter(h, mode, iter) ==
    LET res == default(h, mode)
    IN extend(Machine(res.heap, res.self), iter)

\* ------------------------------------------------ the abstract queue
\* q[b] is what a bounded FIFO with oldest-first eviction holds after the
\* same calls.  pushed[b] describes the run of consecutive push calls since
\* the last call that was not a push: n is the number of pushes, tail the
\* last min(n, capacity) values they were given, oldest first.
NoRun == [n |-> 0, tail |-> <<>>]

RunPush(r, cap, v) ==
    [n |-> r.n + 1, tail |-> LastN(Min(cap, Len(r.tail) + 1), Append(r.tail, v))]

QPush(s, cap, v) == Append(IF Len(s) = cap THEN Tail(s) ELSE s, v)

RECURSIVE QExtend(_, _, _)
QExtend(s, cap, xs) ==
    IF xs = <<>> THEN s ELSE QExtend(QPush(s, cap, Head(xs)), cap, Tail(xs))

\* ------------------------------------------------------------ states
EmptyHeap == [r \in Regions |-> Free]

\* what the public constructors return for arguments up to maxcap, the
\* calls that terminated left out
Constructed(maxcap) ==
    {c \in {with_capacity(EmptyHeap, cap) : cap \in 0..maxcap}
           \cup {with_capacity_non_power_of_two(EmptyHeap, cap) : cap \in 0..maxcap}
           \cup {with_capacity_power_of_2(EmptyHeap, n) :
                    n \in {e \in 0..maxcap : Pow2(e) <= maxcap}} :
        c.self # NoBuf}

InitWith(maxcap) ==
    /\ \E c \in Constructed(maxcap) :
          /\ heap = c.heap
          /\ rb = [b \in BufIds |-> IF b = 1 THEN c.self ELSE NoBuf]
    /\ next = 0
    /\ q = [b \in BufIds |-> <<>>]
    /\ pushed = [b \in BufIds |-> NoRun]
    /\ last = [op |-> "new", buf |-> 1, ret |-> Unit, ev |-> <<>>]
    /\ ub = FALSE

Init == InitWith(MaxCap)

InitClone == InitWith(MaxCapClone)

\* the call op on buffer b ended in machine m
Commit(b, m, op) ==
    /\ heap' = m.heap
    /\ rb' = [rb EXCEPT ![b] = m.self]
    /\ ub' = (ub \/ m.ub)
    /\ last' = [op |-> op, buf |-> b, ret |-> m.ret, ev |-> m.ev]

\* The buffer never inspects its elements, so the callers hand it values
\* that are all different: next is the value the next call will hand over,
\* and Fresh(n) the n values from there on (counting modulo MaxVal + 1).
Fresh(n) == [i \in 1..n |-> (next + i - 1) % (MaxVal + 1)]

Used(n) == next' = (next + n) % (MaxVal + 1)

Push(b, lim) ==
    /\ rb[b] # NoBuf
    /\ rb[b].writeptr < lim
    /\ Commit(b, push(Machine(heap, rb[b]), next), "push")
    /\ Used(1)
    /\ q' = [q EXCEPT ![b] = QPush(@, rb[b].capacity, next)]
    /\ pushed' = [pushed EXCEPT ![b] = RunPush(@, rb[b].capacity, next)]

Dequeue(b) ==
    /\ rb[b] # NoBuf
    /\ Commit(b, dequeue(Machine(heap, rb[b])), "dequeue")
    /\ Used(0)
    /\ q' = [q EXCEPT ![b] = IF @ = <<>> THEN @ ELSE Tail(@)]
    /\ pushed' = [pushed EXCEPT ![b] = NoRun]

\* extend with the next n values
Extend(b, n, lim) ==
    /\ rb[b] # NoBuf
    /\ rb[b].writeptr + n <= lim
    /\ Commit(b, extend(Machine(heap, rb[b]), Fresh(n)), "extend")
    /\ Used(n)
    /\ q' = [q EXCEPT ![b] = QExtend(@, rb[b].capacity, Fresh(n))]
    /\ pushed' = [pushed EXCEPT ![b] = NoRun]

Clear(b) ==
    /\ rb[b] # NoBuf
    /\ Commit(b, clear(Machine(heap, rb[b])), "clear")
    /\ Used(0)
    /\ q' = [q EXCEPT ![b] = <<>>]
    /\ pushed' = [pushed EXCEPT ![b] = NoRun]

\* fill_with a generator that yields the next values, one per call
FillWith(b) ==
    /\ rb[b] # NoBuf
    /\ Commit(b, fill_with(Machine(heap, rb[b]), Fresh(MaxVal + 1)), "fill_with")
    /\ Used(rb[b].capacity)
    /\ q' = [q EXCEPT ![b] = Fresh(rb[b].capacity)]
    /\ pushed' = [pushed EXCEPT ![b] = NoRun]

Clone(src, dst) ==
    /\ rb[src] # NoBuf
    /\ rb[dst] = NoBuf
    /\ Commit(dst, clone(heap, rb[src]), "clone")
    /\ Used(0)
    /\ q' = [q EXCEPT ![dst] = q[src]]
    /\ pushed' = [pushed EXCEPT ![dst] = NoRun]

\* the buffer goes out of scope
Drop(b) ==
    /\ rb[b] # NoBuf
    /\ Commit(b, drop(Machine(heap, rb[b])), "drop")
    /\ Used(0)
    /\ q' = [q EXCEPT ![b] = <<>>]
    /\ pushed' = [pushed EXCEPT ![b] = NoRun]

Next ==
    \/ Push(1, MaxPtr)
    \/ Dequeue(1)
    \/ \E n \in 0..MaxExt : Extend(1, n, MaxPtr)
    \/ Clear(1)
    \/ FillWith(1)

Spec == Init /\ [][Next]_vars

\* the calls on one buffer up to its teardown
NextDrop ==
    \/ Next
    \/ Drop(1)

SpecDrop == Init /\ [][NextDrop]_vars

\* fill_with a generator that panics at its k-th call
FillWithAbort(b, k) ==
    /\ rb[b] # NoBuf
    /\ k <= rb[b].capacity
    /\ Commit(b, fill_with(Machine(heap, rb[b]), [Fresh(MaxVal + 1) EXCEPT ![k] = Abort]),
              "fill_with")
    /\ Used(k - 1)
    /\ q' = [q EXCEPT ![b] = Fresh(k - 1)]
    /\ pushed' = [pushed EXCEPT ![b] = NoRun]

\* push on a full buffer whose oldest element has a destructor that panics;
\* the value handed over is destroyed by the unwinding
PushAbort(b) ==
    /\ rb[b] # NoBuf
    /\ is_full(rb[b])
    /\ Commit(b, push_drop_panics(Machine(heap, rb[b]), next), "push")
    /\ Used(1)
    /\ q' = [q EXCEPT ![b] = IF @ = <<>> THEN @ ELSE Tail(@)]
    /\ pushed' = [pushed EXCEPT ![b] = NoRun]

\* the last call was left by a panic
Aborted == last.ev # <<>> /\ last.ev[Len(last.ev)].e = "abort"

\* the calls on one buffer up to its teardown, caller-supplied code
\* panicking at will; the panic unwinds through the buffer's owner, so
\* teardown is what follows it
NextAbort ==
    \/ ~Aborted /\ Next
    \/ \E k \in 1..MaxCap : ~Aborted /\ FillWithAbort(1, k)
    \/ ~Aborted /\ PushAbort(1)
    \/ Drop(1)

SpecAbort == Init /\ [][NextAbort]_vars

\* A power-of-two-strategy buffer (1) and a general-strategy buffer (2) of
\* one capacity.
InitPair ==
    /\ \E cap \in 1..MaxCapPair :
          LET one == with_capacity(EmptyHeap, cap)
              two == with_capacity_non_power_of_two(one.heap, cap)
          IN /\ one.self # NoBuf
             /\ heap = two.heap
             /\ rb = [b \in BufIds |-> IF b = 1 THEN one.self ELSE two.self]
    /\ next = 0
    /\ q = [b \in BufIds |-> <<>>]
    /\ pushed = [b \in BufIds |-> NoRun]
    /\ last = [op |-> "new", buf |-> 0, ret |-> <<Unit, Unit>>, ev |-> <<<<>>, <<>>>>]
    /\ ub = FALSE

\* the same call made on both buffers, with the same n values; ret and ev
\* keep what each call returned and caused
Both(m1, m2, op, n) ==
    /\ heap' = m2.heap
    /\ rb' = [rb EXCEPT ![1] = m1.self, ![2] = m2.self]
    /\ ub' = (ub \/ m1.ub \/ m2.ub)
    /\ last' = [op |-> op, buf |-> 0, ret |-> <<m1.ret, m2.ret>>,
                ev |-> <<m1.ev, m2.ev>>]
    /\ Used(n)
    /\ UNCHANGED <<q, pushed>>

BothPush ==
    /\ rb[1].writeptr < MaxPtrPair
    /\ LET m1 == push(Machine(heap, rb[1]), next)
           m2 == push(Machine(m1.heap, rb[2]), next)
       IN Both(m1, m2, "push", 1)

BothDequeue ==
    LET m1 == dequeue(Machine(heap, rb[1]))
        m2 == dequeue(Machine(m1.heap, rb[2]))
    IN Both(m1, m2, "dequeue", 0)

BothExtend(n) ==
    /\ rb[1].writeptr + n <= MaxPtrPair
    /\ LET m1 == extend(Machine(heap, rb[1]), Fresh(n))
           m2 == extend(Machine(m1.heap, rb[2]), Fresh(n))
       IN Both(m1, m2, "extend", n)

BothClear ==
    LET m1 == clear(Machine(heap, rb[1]))
        m2 == clear(Machine(m1.heap, rb[2]))
    IN Both(m1, m2, "clear", 0)

BothFillWith ==
    LET m1 == fill_with(Machine(heap, rb[1]), Fresh(MaxVal + 1))
        m2 == fill_with(Machine(m1.heap, rb[2]), Fresh(MaxVal + 1))
    IN Both(m1, m2, "fill_with", rb[1].capacity)

NextPair ==
    \/ BothPush
    \/ BothDequeue
    \/ \E n \in 0..MaxExtPair : BothExtend(n)
    \/ BothClear
    \/ BothFillWith

SpecPair == InitPair /\ [][NextPair]_vars

\* push and dequeue without end, on w-bit cursors
PushWrapping(b) ==
    /\ rb[b] # NoBuf
    /\ Commit(b, push_wrapping(Machine(heap, rb[b]), next), "push")
    /\ Used(1)
    /\ q' = [q EXCEPT ![b] = QPush(@, rb[b].capacity, next)]
    /\ UNCHANGED pushed

DequeueWrapping(b) ==
    /\ rb[b] # NoBuf
    /\ Commit(b, dequeue_wrapping(Machine(heap, rb[b])), "dequeue")
    /\ Used(0)
    /\ q' = [q EXCEPT ![b] = IF @ = <<>> THEN @ ELSE Tail(@)]
    /\ UNCHANGED pushed

InitWrap == InitWith(MaxCapWrap)

NextWrap ==
    \/ PushWrapping(1)
    \/ DequeueWrapping(1)

SpecWrap == InitWrap /\ [][NextWrap]_vars

\* n more values can be handed over
Left(n) == next + n <= MaxValsClone

NextClone ==
    \/ \E b \in BufIds : Left(1) /\ Push(b, MaxPtrClone)
    \/ \E b \in BufIds : Dequeue(b)
    \/ \E b \in BufIds, n \in 0..MaxExtClone : Left(n) /\ Extend(b, n, MaxPtrClone)
    \/ \E b \in BufIds : Clear(b)
    \/ \E b \in BufIds : Left(rb[b].capacity) /\ FillWith(b)
    \/ Clone(1, 2)

SpecClone == InitClone /\ [][NextClone]_vars

\* Two buffers of one strategy, constructed one after the other, each with
\* a capacity of its own.
Second(p) ==
    IF p.one.self.mode = "PowerOfTwo" THEN with_capacity(p.one.heap, p.cap)
    ELSE with_capacity_non_power_of_two(p.one.heap, p.cap)

ConstructedPair(maxcap) ==
    {p \in [one : Constructed(maxcap), cap : 1..maxcap] : Second(p).self # NoBuf}

InitEq ==
    /\ \E p \in ConstructedPair(MaxCapEq) :
          /\ heap = Second(p).heap
          /\ rb = [b \in BufIds |-> IF b = 1 THEN p.one.self ELSE Second(p).self]
    /\ next = 0
    /\ q = [b \in BufIds |-> <<>>]
    /\ pushed = [b \in BufIds |-> NoRun]
    /\ last = [op |-> "new", buf |-> 2, ret |-> Unit, ev |-> <<>>]
    /\ ub = FALSE

\* push of a value the caller chooses (the element type has ==, so two
\* values handed over may be equal)
PushValue(b, v, lim) ==
    /\ rb[b] # NoBuf
    /\ rb[b].writeptr < lim
    /\ Commit(b, push(Machine(heap, rb[b]), v), "push")
    /\ UNCHANGED next
    /\ q' = [q EXCEPT ![b] = QPush(@, rb[b].capacity, v)]
    /\ pushed' = [pushed EXCEPT ![b] = RunPush(@, rb[b].capacity, v)]

NextEq ==
    \/ \E b \in BufIds, v \in 0..MaxValEq : PushValue(b, v, MaxPtrEq)
    \/ \E b \in BufIds : Dequeue(b)

SpecEq == InitEq /\ [][NextEq]_vars

\* No buffer exists yet: the constructors and conversions are calls.
InitNew ==
    /\ heap = EmptyHeap
    /\ rb = [b \in BufIds |-> NoBuf]
    /\ next = 0
    /\ q = [b \in BufIds |-> <<>>]
    /\ pushed = [b \in BufIds |-> NoRun]
    /\ last = [op |-> "none", buf |-> 0, ret |-> Unit, ev |-> <<>>]
    /\ ub = FALSE

FromKinds == {"from_array", "from_slice", "from_growable"}

\* the conversion kind of the next n values
Convert(kind, h, xs) ==
    IF kind = "from_array" THEN from_array(h, xs)
    ELSE IF kind = "from_slice" THEN from_slice(h, xs)
    ELSE from_growable(h, xs)

From(b, kind, n) ==
    /\ rb[b] = NoBuf
    /\ Commit(b, Convert(kind, heap, Fresh(n)), kind)
    /\ Used(n)
    /\ q' = [q EXCEPT ![b] = Fresh(n)]
    /\ pushed' = [pushed EXCEPT ![b] = NoRun]

\* the constructor call op with argument arg returned c, or terminated
\* (then c.self is NoBuf)
Construct(b, op, arg, c) ==
    /\ rb[b] = NoBuf
    /\ heap' = c.heap
    /\ rb' = [rb EXCEPT ![b] = c.self]
    /\ last' = [op |-> op, buf |-> b, ret |-> Unit, ev |-> <<>>, arg |-> arg]
    /\ q' = [q EXCEPT ![b] = <<>>]
    /\ pushed' = [pushed EXCEPT ![b] = NoRun]
    /\ UNCHANGED <<next, ub>>

WithCapacity(b, cap) == Construct(b, "with_capacity", cap, with_capacity(heap, cap))

WithCapacityNonPowerOfTwo(b, cap) ==
    Construct(b, "with_capacity_non_power_of_two", cap,
              with_capacity_non_power_of_two(heap, cap))

WithCapacityPowerOf2(b, n) ==
    Construct(b, "with_capacity_power_of_2", n, with_capacity_power_of_2(heap, n))

Default(b, mode) == Construct(b, "default", mode, default(heap, mode))

New(b) == Construct(b, "new", Unit, AllocRingBuffer_new(heap))

FromIter(b, mode, n) ==
    /\ rb[b] = NoBuf
    /\ Commit(b, from_iter(heap, mode, Fresh(n)), "from_iter")
    /\ Used(n)
    /\ q' = [q EXCEPT ![b] = Fresh(n)]
    /\ pushed' = [pushed EXCEPT ![b] = NoRun]

NextNew ==
    \/ \E cap \in 0..MaxCapNew : WithCapacity(1, cap)
    \/ \E cap \in 0..MaxCapNew : WithCapacityNonPowerOfTwo(1, cap)
    \/ \E n \in 0..MaxExp : WithCapacityPowerOf2(1, n)
    \/ \E mode \in {"PowerOfTwo", "NonPowerOfTwo"} : Default(1, mode)
    \/ New(1)
    \/ \E kind \in FromKinds, n \in 0..MaxSrc : From(1, kind, n)
    \/ \E mode \in {"PowerOfTwo", "NonPowerOfTwo"}, n \in 0..MaxSrc : FromIter(1, mode, n)
    \/ Push(1, MaxPtrNew)
    \/ Dequeue(1)

SpecNew == InitNew /\ [][NextNew]_vars

\* ---------------------------------------------------- shorthands
Bufs == {b \in BufIds : rb[b] # NoBuf}

Contents(b) == ToVec(heap, rb[b])

Slots(b) == heap[rb[b].buf]

NoUB == ub = FALSE

Refines == \A b \in Bufs : Contents(b) = q[b]

\* ------------------------------------------------------------ claims
\* the step just taken was the call op on buffer b
Did(op, b) == last'.op = op /\ last'.buf = b

\* C1: in every reachable state of every buffer 0 <= writeptr - readptr <=
\* capacity, and len() is writeptr - readptr, the number of elements the
\* abstract queue holds; a push on a full buffer leaves len() = capacity().
C1_CursorRange ==
    /\ [](\A b \in Bufs :
            /\ 0 <= rb[b].writeptr - rb[b].readptr
            /\ rb[b].writeptr - rb[b].readptr <= rb[b].capacity
            /\ len(rb[b]) = rb[b].writeptr - rb[b].readptr
            /\ len(rb[b]) = Len(q[b]))
    /\ [][\A b \in Bufs :
            (Did("push", b) /\ rb[b].writeptr - rb[b].readptr = rb[b].capacity)
                => len(rb'[b]) = capacity(rb'[b])]_vars

\* a push evicted from a full buffer whose cursors had left 0
C1_Witness ==
    /\ last.op = "push"
    /\ Drops(last.ev) # <<>>
    /\ rb[1].readptr > 1
    /\ len(rb[1]) = rb[1].capacity

\* C2: after more than capacity consecutive pushes the buffer is full and
\* holds exactly the last capacity values pushed, oldest to newest, whatever
\* the cursors were when the pushes began and for both strategies.
C2_OldestFirstEviction ==
    \A b \in Bufs :
        pushed[b].n > rb[b].capacity =>
            /\ is_full(rb[b])
            /\ Len(pushed[b].tail) = rb[b].capacity
            /\ Contents(b) = pushed[b].tail

\* a general-strategy buffer of capacity 3 whose write cursor stood at 3
\* (filled, then drained) took capacity + 1 pushes
C2_Witness ==
    /\ rb[1].mode = "NonPowerOfTwo"
    /\ rb[1].capacity = 3
    /\ pushed[1].n = rb[1].capacity + 1
    /\ rb[1].writeptr = 2 * rb[1].capacity + 1

\* C3: a dequeue on a non-empty buffer returns the oldest live element (the
\* head of the abstract queue: with no eviction, the earliest value pushed
\* and not yet dequeued), readptr advances by exactly one, len drops by one,
\* writeptr and the remaining elements stay as they were.
C3_FifoOrder ==
    [][\A b \in Bufs :
        (Did("dequeue", b) /\ ~is_empty(rb[b])) =>
            /\ last'.ret = Some(Head(q[b]))
            /\ last'.ret = Some(Head(Contents(b)))
            /\ rb'[b].readptr = rb[b].readptr + 1
            /\ rb'[b].writeptr = rb[b].writeptr
            /\ len(rb'[b]) = len(rb[b]) - 1
            /\ Contents(b)' = Tail(Contents(b))]_vars

\* a dequeue returned a value and left at least one element behind
C3_Witness ==
    /\ last.op = "dequeue"
    /\ last.ret # None
    /\ len(rb[1]) >= 1
    /\ rb[1].readptr > rb[1].capacity

\* the contents extend(xs) must leave, given the contents s before it
ExtendLaw(cap, s, xs) == LastN(Min(cap, Len(s) + Len(xs)), s \o xs)

\* the first n values of a sequence that repeats v
Repeat(v, n) == [k \in 1..n |-> v]

\* the buffer with_capacity(cap) gives after pushing each of s and then extend(xs)
ExtendExample(cap, s, xs) ==
    LET c == with_capacity(EmptyHeap, cap)
        m == extend(extend(Machine(c.heap, c.self), s), xs)
    IN ToVec(m.heap, m.self)

\* C4: in every reachable state with contents s, extend(xs) leaves the last
\* min(capacity, |s| + |xs|) elements of s followed by xs, for every xs of
\* up to MaxExt values; so do the two examples (capacity 4 and capacity 8).
C4_ExtendIsPushes ==
    /\ \A b \in Bufs : \A n \in 0..MaxExt :
            LET m == extend(Machine(heap, rb[b]), Fresh(n))
            IN /\ ToVec(m.heap, m.self) = ExtendLaw(rb[b].capacity, Contents(b), Fresh(n))
               /\ ~m.ub
    /\ ExtendExample(4, Repeat(0, 4), <<0, 1, 2>>) = <<0, 0, 1, 2>>
    /\ ExtendExample(8, Repeat(0, 8), <<0, 1, 2, 3, 4, 5, 6, 7, 8, 9>>)
            = <<2, 3, 4, 5, 6, 7, 8, 9>>

\* an extend evicted part of the earlier contents and kept the rest
C4_Witness ==
    /\ last.op = "extend"
    /\ Drops(last.ev) # <<>>
    /\ Len(Drops(last.ev)) < rb[1].capacity
    /\ rb[1].readptr > 0
    /\ Contents(1) = q[1]

\* C5: with readptr = writeptr, dequeue, peek and back return no value, no
\* call terminates or reads a slot, and the cursors, the capacity and every
\* slot are left as they were.
C5_EmptyRead ==
    \A b \in Bufs :
        rb[b].readptr = rb[b].writeptr =>
            LET m == dequeue(Machine(heap, rb[b]))
            IN /\ m.ret = None
               /\ m.self = rb[b]
               /\ m.heap = heap
               /\ ~m.ub
               /\ peek(heap, rb[b]) = None
               /\ back(heap, rb[b]) = None

\* a dequeue found the buffer empty after its cursors had advanced
C5_Witness ==
    /\ last.op = "dequeue"
    /\ last.ret = None
    /\ rb[1].readptr = rb[1].writeptr
    /\ rb[1].readptr > 0

\* C6: with n live elements get(i) is None exactly when i >= n or i < -n,
\* which is exactly when the logical position it maps i to (readptr + i, or
\* writeptr + i for i < 0) lies outside [readptr, writeptr); buffer[i]
\* terminates in exactly those cases; otherwise both give the element at
\* that distance from the oldest (i >= 0) or from the end (i < 0).
C6_OutOfRange ==
    \A b \in Bufs : \A i \in Idx :
        LET n == Len(q[b])
            out == i >= n \/ i < 0 - n
            pos == IF i >= 0 THEN rb[b].readptr + i ELSE rb[b].writeptr + i
            elem == q[b][IF i >= 0 THEN i + 1 ELSE n + i + 1]
        IN /\ out <=> (pos < rb[b].readptr \/ pos >= rb[b].writeptr)
           /\ (get(heap, rb[b], i) = None) <=> out
           /\ (index(heap, rb[b], i) = Panic) <=> out
           /\ ~out => /\ get(heap, rb[b], i) = Some(elem)
                      /\ index(heap, rb[b], i) = elem

\* two live elements behind advanced cursors: index 1 and -2 are in range,
\* 2 and -3 are not
C6_Witness ==
    /\ len(rb[1]) = 2
    /\ rb[1].readptr > 0
    /\ get(heap, rb[1], 2) = None
    /\ get(heap, rb[1], 0 - 3) = None
    /\ index(heap, rb[1], 2) = Panic
    /\ index(heap, rb[1], 1) # Panic
    /\ index(heap, rb[1], 0 - 2) # Panic

\* C7: on a non-empty buffer get(-1) is what back() returns, the value most
\* recently written, and get(0) is what peek() returns, the oldest live
\* value.  (get, peek and back take the buffer by shared reference: they
\* are functions of the state and cannot change it.)
C7_NegativeIndex ==
    \A b \in Bufs :
        ~is_empty(rb[b]) =>
            /\ get(heap, rb[b], 0 - 1) = back(heap, rb[b])
            /\ back(heap, rb[b]) = Some(q[b][Len(q[b])])
            /\ get(heap, rb[b], 0) = peek(heap, rb[b])
            /\ peek(heap, rb[b]) = Some(Head(q[b]))

\* after an evicting push the newest and the oldest element differ
C7_Witness ==
    /\ last.op = "push"
    /\ Drops(last.ev) # <<>>
    /\ len(rb[1]) >= 2
    /\ get(heap, rb[1], 0 - 1) = back(heap, rb[1])
    /\ get(heap, rb[1], 0) = peek(heap, rb[1])
    /\ back(heap, rb[1]) # peek(heap, rb[1])

\* every "drop" event of ev comes before every "gen" event
DropsBeforeGens(ev) ==
    \A i, j \in 1..Len(ev) : (ev[i].e = "gen" /\ ev[j].e = "drop") => j < i

\* C8: fill_with, called in any reachable state, destroys every live element
\* before the first generator call, calls the generator exactly capacity
\* times and ends with readptr = 0, writeptr = capacity, the i-th value
\* generated in physical slot i and at logical position i, capacity unchanged.
C8_FillWith ==
    [][\A b \in Bufs :
        Did("fill_with", b) =>
            /\ Drops(last'.ev) = Contents(b)
            /\ DropsBeforeGens(last'.ev)
            /\ GenCalls(last'.ev) = rb[b].capacity
            /\ rb'[b].readptr = 0
            /\ rb'[b].writeptr = rb[b].capacity
            /\ is_full(rb'[b])
            /\ rb'[b].capacity = rb[b].capacity
            /\ Slots(b)' = EventVals(last'.ev, "gen")
            /\ \A i \in 0..(rb[b].capacity - 1) :
                  get(heap', rb'[b], i) = Some(EventVals(last'.ev, "gen")[i + 1])]_vars

\* fill_with ran on a capacity-3 buffer that held elements
C8_Witness ==
    /\ last.op = "fill_with"
    /\ Drops(last.ev) # <<>>
    /\ rb[1].capacity = 3
    /\ GenCalls(last.ev) = 3
    /\ is_full(rb[1])

\* C9: clear() leaves the buffer empty with both cursors 0, the capacity and
\* the region it owns as before (still allocated, every live element
\* destroyed); the push that follows a clear writes physical slot 0 and the
\* buffer then holds exactly that value, at logical position 0.
C9_ClearResets ==
    [][\A b \in Bufs :
        /\ Did("clear", b) =>
              /\ is_empty(rb'[b])
              /\ len(rb'[b]) = 0
              /\ rb'[b].readptr = 0
              /\ rb'[b].writeptr = 0
              /\ rb'[b].capacity = rb[b].capacity
              /\ rb'[b].buf = rb[b].buf
              /\ Len(heap'[rb[b].buf]) = rb[b].capacity
              /\ Drops(last'.ev) = Contents(b)
        /\ (last.op = "clear" /\ last.buf = b /\ Did("push", b)) =>
              LET v == pushed'[b].tail[Len(pushed'[b].tail)]
              IN /\ Slots(b)'[1] = v
                 /\ Contents(b)' = <<v>>
                 /\ get(heap', rb'[b], 0) = Some(v)
                 /\ rb'[b].readptr = 0
                 /\ rb'[b].writeptr = 1]_vars

\* clear ran on a full capacity-3 buffer
C9_Witness ==
    /\ last.op = "clear"
    /\ Len(Drops(last.ev)) = 3
    /\ rb[1].capacity = 3
    /\ is_empty(rb[1])
    /\ rb[1].readptr = 0

\* C10: clone() gives a buffer with a region of its own, the capacity of the
\* source and the same live elements in the same order, equal to the source
\* under ==, and leaves the source as it was; from then on a call on either
\* buffer leaves the other's cursors, length, contents and slots unchanged.
C10_CloneIndependent ==
    [][/\ Did("clone", 2) =>
            /\ rb'[2].capacity = rb[1].capacity
            /\ rb'[2].mode = rb[1].mode
            /\ rb'[2].buf # rb'[1].buf
            /\ Contents(2)' = Contents(1)
            /\ eq(heap', rb'[2], rb'[1])
            /\ eq(heap', rb'[1], rb'[2])
       /\ \A b \in Bufs :
            last'.buf # b =>
                /\ rb'[b] = rb[b]
                /\ len(rb'[b]) = len(rb[b])
                /\ Contents(b)' = Contents(b)
                /\ Slots(b)' = Slots(b)]_vars

\* the clone of a source with advanced cursors evicted an element while the
\* source still holds its own
C10_Witness ==
    /\ rb[2] # NoBuf
    /\ rb[1].readptr > 0
    /\ last.op = "push"
    /\ last.buf = 2
    /\ Drops(last.ev) # <<>>
    /\ Contents(1) # Contents(2)
    /\ Contents(1) = q[1]
    /\ len(rb[1]) = len(rb[2])

\* C11: two buffers of one strategy compare equal exactly when their
\* capacities are equal and they hold the same number of elements, pairwise
\* equal oldest to newest (the contents of the abstract queues, which know
\* neither cursors nor slots); the comparison is symmetric.
C11_Equality ==
    /\ eq(heap, rb[1], rb[2]) <=>
            /\ rb[1].capacity = rb[2].capacity
            /\ Len(q[1]) = Len(q[2])
            /\ \A k \in 1..Len(q[1]) : k <= Len(q[2]) => q[1][k] = q[2][k]
    /\ eq(heap, rb[1], rb[2]) <=> eq(heap, rb[2], rb[1])
    /\ rb[1].mode = rb[2].mode

\* equal buffers whose cursors differ and whose elements lie in different
\* physical slots
C11_Witness ==
    /\ eq(heap, rb[1], rb[2])
    /\ len(rb[1]) = 2
    /\ Contents(1)[1] # Contents(1)[2]
    /\ rb[1].readptr # rb[2].readptr
    /\ Slots(1) # Slots(2)

\* the values a conversion step was given: the tickets it used up
Source == [i \in 1..((next' - next) % (MaxVal + 1)) |-> (next + i - 1) % (MaxVal + 1)]

\* the buffer a conversion leaves for the source xs
Converted(b, xs) ==
    /\ rb'[b] # NoBuf
    /\ rb'[b].mode = "NonPowerOfTwo"
    /\ rb'[b].capacity = Len(xs)
    /\ is_full(rb'[b])
    /\ Contents(b)' = xs
    /\ Drops(last'.ev) = <<>>

\* the buffer each conversion gives for the source xs of the tests
ConversionExample(xs) ==
    \A kind \in FromKinds :
        LET m == Convert(kind, EmptyHeap, xs)
        IN m.self.capacity = Len(xs) /\ ToVec(m.heap, m.self) = xs

\* C12 as stated: every conversion, of every source, leaves a full
\* general-strategy buffer of the source's length holding the source.
C12_Original ==
    [][\A kind \in FromKinds : Did(kind, 1) => Converted(1, Source)]_vars

\* C12: the conversion of a non-empty array, slice or drained growable
\* buffer leaves a general-strategy buffer whose capacity is the source
\* length, full, holding the source elements in source order, none
\* destroyed; the conversion of an empty source terminates and leaves no
\* buffer (capacity 0 is refused).
C12_Conversions ==
    /\ [][\A kind \in FromKinds :
            Did(kind, 1) =>
                IF Source = <<>>
                THEN rb'[1] = NoBuf /\ heap' = heap
                ELSE Converted(1, Source)]_vars
    /\ [](ConversionExample(<<1, 2, 3, 4>>))

\* a slice of three elements was converted
C12_Witness ==
    /\ last.op = "from_slice"
    /\ rb[1].capacity = 3
    /\ Len(Contents(1)) = 3
    /\ Contents(1)[1] # Contents(1)[3]

\* n is 2^e for some e (by search, not by the bit test the code uses)
IsPowerOfTwo(n) == \E e \in 0..10 : n = 2 ^ e

\* the step just taken was the constructor call op on buffer b
Called(op, b) == last'.op = op /\ last'.buf = b

\* C13: with_capacity(cap) terminates when cap is 0 or not a power of two
\* and otherwise gives a power-of-two-strategy buffer of capacity cap;
\* with_capacity_non_power_of_two(cap) terminates exactly when cap is 0 and
\* otherwise gives a general-strategy buffer of capacity cap (capacity 10:
\* the first terminates, the second succeeds); whatever constructor or
\* conversion made it, no buffer has capacity 0 and no power-of-two-strategy
\* buffer has a capacity that is not a power of two.
C13_ConstructionPreconditions ==
    /\ [][/\ Called("with_capacity", 1) =>
              (/\ rb'[1] = NoBuf <=> (last'.arg = 0 \/ ~IsPowerOfTwo(last'.arg))
               /\ rb'[1] = NoBuf \/ rb'[1].capacity = last'.arg
               /\ rb'[1] = NoBuf \/ rb'[1].mode = "PowerOfTwo"
               /\ rb'[1] # NoBuf \/ heap' = heap)
          /\ Called("with_capacity_non_power_of_two", 1) =>
              (/\ rb'[1] = NoBuf <=> last'.arg = 0
               /\ rb'[1] = NoBuf \/ rb'[1].capacity = last'.arg
               /\ rb'[1] = NoBuf \/ rb'[1].mode = "NonPowerOfTwo"
               /\ rb'[1] # NoBuf \/ heap' = heap)]_vars
    /\ [](/\ with_capacity(EmptyHeap, 10).self = NoBuf
          /\ with_capacity_non_power_of_two(EmptyHeap, 10).self.capacity = 10
          /\ \A b \in Bufs :
                /\ rb[b].capacity > 0
                /\ Len(Slots(b)) = rb[b].capacity
                /\ rb[b].mode = "PowerOfTwo" => IsPowerOfTwo(rb[b].capacity))

\* with_capacity(3) terminated: no buffer, and the call is on record
C13_Witness ==
    /\ last.op = "with_capacity"
    /\ last.arg = 3
    /\ rb[1] = NoBuf

\* the capacity the constructor call on record was asked for
Requested ==
    IF last'.op \in {"default", "new"} THEN RINGBUFFER_DEFAULT_CAPACITY
    ELSE IF last'.op = "with_capacity_power_of_2" THEN 2 ^ last'.arg
    ELSE last'.arg

Constructors ==
    {"default", "new", "with_capacity", "with_capacity_power_of_2",
     "with_capacity_non_power_of_two"}

\* C14: the buffer default(), new(), with_capacity(c),
\* with_capacity_power_of_2(n) or with_capacity_non_power_of_two(c) returns
\* has readptr = writeptr = 0, is empty, iterates over nothing, has no
\* initialized slot, and has the capacity asked for: 1024 for default and
\* new (new, and default of the default strategy, are power-of-two
\* buffers), 2^n for the exponent constructor.
C14_FreshIsEmpty ==
    [][\A op \in Constructors :
        (Called(op, 1) /\ rb'[1] # NoBuf) =>
            /\ rb'[1].readptr = 0
            /\ rb'[1].writeptr = 0
            /\ is_empty(rb'[1])
            /\ len(rb'[1]) = 0
            /\ Contents(1)' = <<>>
            /\ \A i \in 1..Len(Slots(1)') : Slots(1)'[i] = Uninit
            /\ capacity(rb'[1]) = Requested
            /\ Len(Slots(1)') = Requested
            /\ (op = "new" => rb'[1].mode = "PowerOfTwo")
            /\ (op = "default" => rb'[1].mode = last'.arg)
            /\ (op = "with_capacity_power_of_2" => rb'[1].mode = "PowerOfTwo")]_vars

\* default() returned a buffer of 1024 slots
C14_Witness ==
    /\ last.op = "default"
    /\ last.arg = "PowerOfTwo"
    /\ rb[1].capacity = 1024
    /\ Len(Slots(1)) = 1024
    /\ is_empty(rb[1])

\* the logical positions of buffer b that are live
LivePositions(b) == rb[b].readptr..(rb[b].writeptr - 1)

\* C15: in every state reached by push, dequeue, extend, clear, fill_with
\* and clone, a slot of a buffer's region is initialized exactly when it is
\* the slot of a position in [readptr, writeptr), two different live
\* positions have different slots, no call has read or destroyed an
\* uninitialized slot, and get, peek, back and iteration yield none.
C15_Liveness ==
    /\ NoUB
    /\ \A b \in Bufs :
          /\ \A i \in 0..(rb[b].capacity - 1) :
                Slots(b)[i + 1] # Uninit
                    <=> \E pos \in LivePositions(b) : SlotOf(rb[b], pos) = i
          /\ \A p1, p2 \in LivePositions(b) :
                p1 # p2 => SlotOf(rb[b], p1) # SlotOf(rb[b], p2)
          /\ \A pos \in LivePositions(b) :
                SlotOf(rb[b], pos) \in 0..(rb[b].capacity - 1)
          /\ \A i \in Idx : get(heap, rb[b], i) # Some(Uninit)
          /\ peek(heap, rb[b]) # Some(Uninit)
          /\ back(heap, rb[b]) # Some(Uninit)
          /\ \A k \in 1..Len(Contents(b)) : Contents(b)[k] # Uninit

\* beside its source, a clone whose live range has wrapped: its one live
\* element is in slot 0, slot 1 was vacated by a dequeue
C15_Witness ==
    /\ rb[1] # NoBuf
    /\ rb[2] # NoBuf
    /\ last.op = "dequeue"
    /\ last.buf = 2
    /\ rb[2].capacity = 2
    /\ rb[2].readptr = 2
    /\ rb[2].writeptr = 3
    /\ Slots(2)[1] # Uninit
    /\ Slots(2)[2] = Uninit

\* the elements of the sequence s
Elems(s) == {s[i] : i \in 1..Len(s)}

\* how often v occurs in the sequence s
Count(s, v) == Cardinality({i \in 1..Len(s) : s[i] = v})

\* the values a step wrote into slots, destroyed, and returned to the caller
Written == EventVals(last'.ev, "write")

Destroyed == Drops(last'.ev)

Returned == IF last'.op = "dequeue" THEN last'.ret ELSE <<>>

\* what the slots of buffer b hold after the step (nothing once it is gone)
SlotsAfter(b) == IF rb'[b] = NoBuf THEN <<>> ELSE Slots(b)'

\* C16: at every step of a buffer's life, teardown included, each value is
\* accounted for: what the slots held before plus what the step wrote is
\* what the slots hold after plus what the step destroyed plus what it
\* returned to the caller, value by value; the values written by push,
\* extend and fill_with are the values handed over; the slots hold exactly
\* the live elements; no destructor runs on an uninitialized slot; capacity
\* and region never change; teardown destroys exactly the live elements,
\* oldest first, then releases the region, whose size is the capacity, once,
\* and leaves nothing behind.
C16_ExactlyOnce ==
    /\ [][\A b \in Bufs :
            last'.buf = b =>
                LET before == Slots(b)
                    after == SlotsAfter(b)
                    w == Written
                    d == Destroyed
                    r == Returned
                    all == (Elems(before) \cup Elems(after) \cup Elems(w)
                               \cup Elems(d) \cup Elems(r)) \ {Uninit}
                IN /\ \A v \in all :
                         Count(before, v) + Count(w, v)
                             = Count(after, v) + Count(d, v) + Count(r, v)
                   /\ all \subseteq 0..MaxVal
                   /\ Count(d, Uninit) = 0
                   /\ last'.op \in {"push", "extend", "fill_with"} => w = Source
                   /\ last'.op \in {"dequeue", "clear", "drop"} => w = <<>>
                   /\ rb'[b] = NoBuf <=> last'.op = "drop"
                   /\ rb'[b] # NoBuf =>
                         rb'[b].capacity = rb[b].capacity /\ rb'[b].buf = rb[b].buf
                   /\ last'.op = "drop" =>
                         /\ d = Contents(b)
                         /\ last'.ev = [i \in 1..Len(d) |-> Event("drop", d[i])]
                                           \o <<Event("dealloc", rb[b].capacity)>>
                         /\ Len(before) = rb[b].capacity
                         /\ heap'[rb[b].buf] = Free]_vars
    /\ [](/\ NoUB
           /\ \A b \in Bufs :
                 \A v \in (Elems(Slots(b)) \cup Elems(Contents(b))) \ {Uninit} :
                     Count(Slots(b), v) = Count(Contents(b), v))

\* teardown of a buffer that had evicted or returned elements before and
\* still held several
C16_Witness ==
    /\ last.op = "drop"
    /\ rb[1] = NoBuf
    /\ heap[1] = Free
    /\ Len(Drops(last.ev)) >= 2
    /\ Drops(last.ev)[1] >= MaxCap

\* C17: every write, by push, extend or fill_with, goes to a slot that
\* holds no element at that moment; a write by push (extend is a sequence
\* of pushes) goes to the slot of the write cursor with fewer than capacity
\* positions in [readptr, writeptr): the read cursor has moved on.  A
\* push on a full buffer first destroys the oldest element, then advances
\* readptr, then writes the new value into the slot the oldest element was
\* in; the other elements stay.  A push on a buffer that is not full
\* destroys nothing.
C17_DestroyThenWrite ==
    [][\A b \in Bufs :
        last'.buf = b =>
            LET ev == last'.ev
                old == Contents(b)
            IN /\ \A i \in 1..Len(ev) :
                     ev[i].e = "write" =>
                         /\ ev[i].over = Uninit
                         /\ last'.op \in {"push", "extend"} =>
                               /\ ev[i].writeptr - ev[i].readptr < rb[b].capacity
                               /\ ev[i].slot = SlotOf(rb[b], ev[i].writeptr)
               /\ (last'.op = "push" /\ is_full(rb[b])) =>
                     /\ Len(ev) = 2
                     /\ ev[1] = Event("drop", Head(old))
                     /\ ev[2].e = "write"
                     /\ ev[2].slot = SlotOf(rb[b], rb[b].readptr)
                     /\ Slots(b)[ev[2].slot + 1] = Head(old)
                     /\ ev[2].readptr = rb[b].readptr + 1
                     /\ rb'[b].readptr = rb[b].readptr + 1
                     /\ Contents(b)' = Append(Tail(old), ev[2].v)
               /\ (last'.op = "push" /\ ~is_full(rb[b])) =>
                     /\ Len(ev) = 1
                     /\ ev[1].e = "write"
                     /\ ev[1].readptr = rb[b].readptr
                     /\ rb'[b].readptr = rb[b].readptr
                     /\ Contents(b)' = Append(old, ev[1].v)]_vars

\* a push on a full capacity-3 buffer whose cursors had wrapped evicted the
\* element in slot 2 and wrote there
C17_Witness ==
    /\ last.op = "push"
    /\ rb[1].capacity = 3
    /\ Len(last.ev) = 2
    /\ last.ev[1].e = "drop"
    /\ last.ev[2].e = "write"
    /\ last.ev[2].slot = 2
    /\ last.ev[2].readptr > rb[1].capacity

\* C18 as stated: also in the states a panic of the generator or of an
\* evicted element's destructor leaves behind, the cursors span at most
\* capacity positions, a slot is initialized exactly when it is the slot of
\* a position in [readptr, writeptr), and no call, the teardown included,
\* has read or destroyed an uninitialized or already destroyed slot.
C18_NoPartialFailure ==
    /\ NoUB
    /\ last.op = "drop" => Count(Drops(last.ev), Uninit) = 0
    /\ \A b \in Bufs :
          /\ 0 <= rb[b].writeptr - rb[b].readptr
          /\ rb[b].writeptr - rb[b].readptr <= rb[b].capacity
          /\ \A i \in 0..(rb[b].capacity - 1) :
                Slots(b)[i + 1] # Uninit
                    <=> \E pos \in LivePositions(b) : SlotOf(rb[b], pos) = i

\* the power-of-two capacities up to MaxIndex
PowerOfTwoCapacities == {c \in 1..MaxIndex : IsPowerOfTwo(c)}

\* C19: for every power-of-two capacity and every index the strategy of
\* PowerOfTwo and the strategy of NonPowerOfTwo give the same slot, which is
\* index & (capacity - 1), is index % capacity and lies in [0, capacity);
\* a power-of-two-strategy buffer and a general-strategy buffer of one
\* capacity, given the same calls, have the same cursors, the same slot
\* contents and the same elements after every call, every call returned
\* the same and destroyed and wrote the same values in the same slots, and
\* get answers the same on both.
C19_StrategiesAgree ==
    /\ \A cap \in PowerOfTwoCapacities : \A i \in 0..MaxIndex :
          /\ SizeMask("PowerOfTwo", cap, i) = SizeMask("NonPowerOfTwo", cap, i)
          /\ SizeMask("PowerOfTwo", cap, i) = BitAnd(i, cap - 1)
          /\ SizeMask("NonPowerOfTwo", cap, i) = i % cap
          /\ SizeMask("PowerOfTwo", cap, i) \in 0..(cap - 1)
    /\ rb[1].mode = "PowerOfTwo"
    /\ rb[2].mode = "NonPowerOfTwo"
    /\ rb[1].capacity = rb[2].capacity
    /\ rb[1].readptr = rb[2].readptr
    /\ rb[1].writeptr = rb[2].writeptr
    /\ Slots(1) = Slots(2)
    /\ Contents(1) = Contents(2)
    /\ last.ret[1] = last.ret[2]
    /\ last.ev[1] = last.ev[2]
    /\ \A i \in Idx : get(heap, rb[1], i) = get(heap, rb[2], i)
    /\ NoUB

\* both buffers, of capacity 4, evicted on a push after their cursors had
\* gone round once
C19_Witness ==
    /\ rb[1].capacity = 4
    /\ rb[2].capacity = 4
    /\ last.op = "push"
    /\ Drops(last.ev[1]) # <<>>
    /\ Drops(last.ev[2]) # <<>>
    /\ rb[1].readptr > 4
    /\ rb[2].readptr > 4

\* C20 as stated: with w-bit cursors that wrap around, whatever the
\* strategy and the capacity, the buffer never counts more than capacity
\* elements, holds what a FIFO with oldest-first eviction holds after the
\* same pushes and dequeues, oldest first, every dequeue returns the oldest
\* element, no push writes over an element, and no call reads an
\* uninitialized slot.
C20_CursorOverflow ==
    /\ NoUB
    /\ \A b \in Bufs :
          /\ len_wrapping(rb[b]) <= rb[b].capacity
          /\ len_wrapping(rb[b]) = Len(q[b])
          /\ ToVec_wrapping(heap, rb[b]) = q[b]
    /\ \A i \in 1..Len(last.ev) : last.ev[i].e = "write" => last.ev[i].over = Uninit

====
